---------------------------- MODULE Spec2Model ----------------------------
(***************************************************************************)
(* A model of markovtweet.py: the regular-expression tokenizer, the        *)
(* Probability_Distribution class, and the Markov_Chain class (training,   *)
(* persistence and tweet generation).                                      *)
(*                                                                         *)
(* A Python string is a sequence of one-character strings, so that len(),  *)
(* concatenation and the regular expression act on characters.             *)
(***************************************************************************)
EXTENDS Integers, Sequences, FiniteSets, TLC

VARIABLES
    text,        \* tokenize: the tweet text passed in
    tokens,      \* tokenize: the list it returned (None before it returns)
    mc,          \* Markov_Chain.mc: token -> Probability_Distribution
    calls,       \* number of update_markov_chain calls made so far
    lastTokens,  \* argument of the latest update_markov_chain call
    file,        \* content of the file save/load work on (NoFile: absent)
    savedMc,     \* <<self.mc>> at the latest save_markov_chain call, << >> before
    fresh,       \* mc of the fresh chain load_markov_chain is called on
    outcome,     \* how the latest save/load call ended
    pc,          \* generate_tweet: position
    tweet,       \* generate_tweet: local tweet
    seed,        \* generate_tweet: local seed (the current token)
    seedArg,     \* generate_tweet: the seed the caller passed
    result,      \* generate_tweet: returned value
    stdout,      \* lines printed by the program
    pd,          \* a stand-alone Probability_Distribution object
    pSelf,       \* pick: the distribution the latest call ran on
    pOrder,      \* pick: iteration order of self.dist in the latest call
    pRand,       \* pick: value random.randrange returned in the latest call
    picked       \* pick: returned token

vars == <<text, tokens, mc, calls, lastTokens, file, savedMc, fresh, outcome,
          pc, tweet, seed, seedArg, result, stdout, pd, pSelf, pOrder, pRand,
          picked>>

tokVars  == <<text, tokens>>
mcVars   == <<mc, calls, lastTokens>>
ioVars   == <<file, savedMc, fresh, outcome>>
genVars  == <<pc, tweet, seed, seedArg, result, stdout>>
pickVars == <<pd, pSelf, pOrder, pRand, picked>>

\* Python's None: a value that is no string (no sequence of characters)
None   == <<"None">>
NoFile == "NoFile"    \* the file does not exist

Min(S) == CHOOSE x \in S : \A y \in S : x <= y
Max(S) == CHOOSE x \in S : \A y \in S : x >= y

(***************************************************************************)
(* Character classes of the regular expression (re.IGNORECASE, byte        *)
(* strings: \w is [a-zA-Z0-9_], \s is [ \t\n\r\f\v]).                      *)
(***************************************************************************)
Lower == {"a","b","c","d","e","f","g","h","i","j","k","l","m",
          "n","o","p","q","r","s","t","u","v","w","x","y","z"}
Upper == {"A","B","C","D","E","F","G","H","I","J","K","L","M",
          "N","O","P","Q","R","S","T","U","V","W","X","Y","Z"}
Letter == Lower \cup Upper
Digit == {"0","1","2","3","4","5","6","7","8","9"}
WordChar == Letter \cup Digit \cup {"_"}
Whitespace == {" ", "\t", "\n", "\r", "\f"}
EmoEyes == {":", "=", ";"}
EmoNose == {"o", "O", "-"}
EmoMouth == {"D", "d", ")", "]", "(", "/", "\\", "O", "o", "p", "P"}
HashBody == WordChar \cup {"'", "-"}
HyphenBody == Letter \cup {"'", "-", "_"}
\* [a-z] | [0-9] | [$-_@.&amp;+] | [!*\(\),] ; [$-_] is the range 0x24..0x5F
UrlChar == Letter \cup Digit \cup
           {"$","%","&","'","(",")","*","+",",","-",".","/",":",";","<","=",
            ">","?","@","[","\\","]","^","_","!"}

\* index of the last character of the maximal run of C-characters of s that
\* starts at p (p - 1 when s[p] is not in C or p is past the end)
RunLast(s, p, C) ==
    LET bad == {i \in p..Len(s) : s[i] \notin C}
    IN  IF bad = {} THEN Len(s) ELSE Min(bad) - 1

\* index of the last C-character among s[lo..hi], 0 when there is none
LastIn(s, lo, hi, C) ==
    LET ok == {i \in lo..hi : s[i] \in C}
    IN  IF ok = {} THEN 0 ELSE Max(ok)

(***************************************************************************)
(* The nine alternatives of tokens_re.  Each operator gives the index of   *)
(* the last character of the match the backtracking matcher finds first    *)
(* for that alternative at position p, or 0 when it does not match there.  *)
(***************************************************************************)
\* [:=;] [oO\-]? [D\)\]\(\]/\\OpP]
MatchEmoticon(s, p) ==
    IF s[p] \notin EmoEyes THEN 0
    ELSE IF p + 2 <= Len(s) /\ s[p+1] \in EmoNose /\ s[p+2] \in EmoMouth
         THEN p + 2
    ELSE IF p + 1 <= Len(s) /\ s[p+1] \in EmoMouth THEN p + 1
    ELSE 0

\* <[^>]+>
MatchHtmlTag(s, p) ==
    IF s[p] # "<" THEN 0
    ELSE LET close == {i \in (p+1)..Len(s) : s[i] = ">"}
         IN  IF close = {} \/ Min(close) < p + 2 THEN 0 ELSE Min(close)

\* (?:@[\w_]+)
MatchMention(s, p) ==
    IF s[p] # "@" THEN 0
    ELSE LET e == RunLast(s, p + 1, WordChar)
         IN  IF e >= p + 1 THEN e ELSE 0

\* (?:\#+[\w_]+[\w\'_\-]*[\w_]+)
MatchHashtag(s, p) ==
    IF s[p] # "#" THEN 0
    ELSE LET q == RunLast(s, p, {"#"}) + 1
             e == LastIn(s, q, RunLast(s, q, HashBody), WordChar)
         IN  IF q <= Len(s) /\ s[q] \in WordChar /\ e >= q + 1 THEN e ELSE 0

\* http[s]?://(?:[a-z]|[0-9]|[$-_@.&amp;+]|[!*\(\),]|(?:%[0-9a-f][0-9a-f]))+
MatchUrl(s, p) ==
    LET isAt(i, C) == i <= Len(s) /\ s[i] \in C
        scheme == /\ isAt(p, {"h","H"}) /\ isAt(p+1, {"t","T"})
                  /\ isAt(p+2, {"t","T"}) /\ isAt(p+3, {"p","P"})
        q == IF isAt(p+4, {"s","S"}) THEN p + 5 ELSE p + 4
        sep == isAt(q, {":"}) /\ isAt(q+1, {"/"}) /\ isAt(q+2, {"/"})
        e == RunLast(s, q + 3, UrlChar)
    IN  IF scheme /\ sep /\ e >= q + 3 THEN e ELSE 0

\* (?:\d+,?)+ : digit groups, each optionally followed by one comma
RECURSIVE DigitGroups(_, _)
DigitGroups(s, p) ==
    LET d == RunLast(s, p, Digit)
        c == IF d + 1 <= Len(s) /\ s[d+1] = "," THEN d + 1 ELSE d
    IN  IF c + 1 <= Len(s) /\ s[c+1] \in Digit THEN DigitGroups(s, c + 1) ELSE c

\* (?:(?:\d+,?)+(?:\.?\d+)?)
MatchNumber(s, p) ==
    IF s[p] \notin Digit THEN 0
    ELSE LET g == DigitGroups(s, p)
         IN  IF g + 2 <= Len(s) /\ s[g+1] = "." /\ s[g+2] \in Digit
             THEN RunLast(s, g + 2, Digit)
             ELSE g

\* (?:[a-z][a-z'\-_]+[a-z])
MatchHyphenWord(s, p) ==
    IF s[p] \notin Letter THEN 0
    ELSE LET e == LastIn(s, p + 1, RunLast(s, p + 1, HyphenBody), Letter)
         IN  IF e >= p + 2 THEN e ELSE 0

\* (?:[\w_]+)
MatchWord(s, p) ==
    IF s[p] \notin WordChar THEN 0 ELSE RunLast(s, p, WordChar)

\* (?:\S)
MatchAny(s, p) ==
    IF s[p] \in Whitespace THEN 0 ELSE p

\* the alternation: the first alternative, in the listed order, that matches
MatchAt(s, p) ==
    LET alts == << MatchEmoticon(s, p), MatchHtmlTag(s, p), MatchMention(s, p),
                   MatchHashtag(s, p), MatchUrl(s, p), MatchNumber(s, p),
                   MatchHyphenWord(s, p), MatchWord(s, p), MatchAny(s, p) >>
        hit == {i \in 1..9 : alts[i] # 0}
    IN  IF hit = {} THEN 0 ELSE alts[Min(hit)]

\* tokens_re.findall: leftmost non-overlapping matches, scanning from p
RECURSIVE FindAll(_, _)
FindAll(s, p) ==
    IF p > Len(s) THEN << >>
    ELSE LET e == MatchAt(s, p)
         IN  IF e = 0 THEN FindAll(s, p + 1)
             ELSE <<SubSeq(s, p, e)>> \o FindAll(s, e + 1)

tokenize(tweetText) == FindAll(tweetText, 1)


(***************************************************************************)
(* Markov_Chain.Probability_Distribution                                   *)
(***************************************************************************)
END_OF_TWEET == <<"E","N","D","_","O","F","_","T","W","E","E","T">>

\* __init__: self.dist = {} ; self.total = 0
NewDistribution == [dist |-> << >>, total |-> 0]

\* update with "self.total += 1" moved into the else branch
PDUpdateTotalOnInsert(d, token) ==
    IF token \in DOMAIN d.dist
    THEN [dist |-> [d.dist EXCEPT ![token] = @ + 1], total |-> d.total]
    ELSE [dist |-> d.dist @@ (token :> 1), total |-> d.total + 1]

\* update(self, token)
PDUpdate(d, token) ==
    [dist  |-> IF token \in DOMAIN d.dist
               THEN [d.dist EXCEPT ![token] = @ + 1]
               ELSE d.dist @@ (token :> 1),
     total |-> d.total + 1]

\* the orders "for token in self.dist" can visit the keys in: a Python 2 dict
\* iterates in an order the language leaves unspecified
IterOrders(d) ==
    LET keys == DOMAIN d.dist
        n == Cardinality(keys)
    IN  {o \in [1..n -> keys] : \A i, j \in 1..n : o[i] = o[j] => i = j}

\* the test of pick's loop with <= for <
PickHitInclusive(randnum, currCnt, currDex) == randnum <= currCnt + currDex

\* the test of pick's loop: randnum < currCnt + currDex
PickHit(randnum, currCnt, currDex) == randnum < currCnt + currDex

\* the loop of pick; falling out of it returns None
RECURSIVE PickLoop(_, _, _, _, _)
PickLoop(d, order, randnum, i, currDex) ==
    IF i > Len(order) THEN None
    ELSE LET token == order[i]
             currCnt == d.dist[token]
         IN  IF PickHit(randnum, currCnt, currDex) THEN token
             ELSE PickLoop(d, order, randnum, i + 1, currDex + currCnt)

\* pick(self), for the order the dict iterates in and the number drawn
pick(d, order, randnum) == PickLoop(d, order, randnum, 1, 0)

\* random.randrange(self.total): the values it can return (none for total = 0,
\* where it raises ValueError)
RandRange(n) == 0..(n - 1)

(***************************************************************************)
(* Markov_Chain                                                            *)
(***************************************************************************)
\* __init__: self.mc = {}
EmptyChain == << >>

\* the else branch without its update call: a new key gets an empty distribution
ChainUpdateNoFirstCount(chain, ctx, token) ==
    IF ctx \in DOMAIN chain
    THEN [chain EXCEPT ![ctx] = PDUpdate(@, token)]
    ELSE chain @@ (ctx :> NewDistribution)

\* lines 126-130 and 133-137: update the distribution of ctx, creating it first
\* when ctx is not a key
ChainUpdate(chain, ctx, token) ==
    IF ctx \in DOMAIN chain
    THEN [chain EXCEPT ![ctx] = PDUpdate(@, token)]
    ELSE chain @@ (ctx :> PDUpdate(NewDistribution, token))

\* the final-token test off by one: it never holds inside the loop
IsFinalTokenOffByOne(toks, i) == i = Len(toks) + 1

\* "if i == len(tokens) - 1", with i counted from 1 as the sequences here are
IsFinalToken(toks, i) == i = Len(toks)

\* the loop "for i in range(1, len(tokens))"; i here is the code's i plus one
RECURSIVE UpdateLoop(_, _, _)
UpdateLoop(chain, toks, i) ==
    IF i > Len(toks) THEN chain
    ELSE LET c1 == ChainUpdate(chain, toks[i-1], toks[i])
             c2 == IF IsFinalToken(toks, i)
                   THEN ChainUpdate(c1, toks[i], END_OF_TWEET)
                   ELSE c1
         IN  UpdateLoop(c2, toks, i + 1)

\* update_markov_chain that also marks the only token of a one-token list as final
update_markov_chain_marking_single(chain, toks) ==
    IF Len(toks) = 1 THEN ChainUpdate(chain, toks[1], END_OF_TWEET)
    ELSE UpdateLoop(chain, toks, 2)

update_markov_chain(chain, toks) == UpdateLoop(chain, toks, 2)

\* json.dumps(self.mc): Probability_Distribution objects are not serializable
JsonDumps(chain) ==
    IF DOMAIN chain = {} THEN [ok |-> TRUE, value |-> <<"{", "}">>]
    ELSE [ok |-> FALSE, value |-> "TypeError"]

\* save_markov_chain: open(filename, 'w') creates or truncates the file; the
\* string json.dumps returns is dropped, nothing is written to outfile
save_markov_chain(chain) ==
    [file    |-> << >>,
     outcome |-> IF JsonDumps(chain).ok THEN "saved" ELSE JsonDumps(chain).value]

\* json.load(infile) for the contents the file can have here
JsonLoad(content) ==
    IF content = <<"{", "}">> THEN [ok |-> TRUE, value |-> EmptyChain]
    ELSE [ok |-> FALSE, value |-> "ValueError"]

\* load_markov_chain on a chain whose mc is chain
load_markov_chain(chain, f) ==
    IF f = NoFile THEN [mc |-> chain, outcome |-> "IOError"]
    ELSE LET r == JsonLoad(f)
         IN  IF r.ok THEN [mc |-> r.value, outcome |-> "loaded"]
             ELSE [mc |-> chain, outcome |-> r.value]

\* the length generate_tweet's loop compares len(tweet) with
MaxTweetLen == 140

\* while len(tweet) < 140
LoopGuard(tw) == Len(tw) < MaxTweetLen

\* the append lost: tweet stays as it is
AppendTokenLost(tw, next) == tw

\* tweet += " " + next
AppendToken(tw, next) == tw \o <<" ">> \o next

SeedMessage == "Seed not present in the Markov Chain"

\* generate_next_token(self, token): self.mc[token].pick()
generate_next_token(chain, token, order, randnum) ==
    pick(chain[token], order, randnum)

(***************************************************************************)
(* Bounds and inputs of the model                                          *)
(***************************************************************************)
MaxTextLen == 3      \* tokenize: every text up to this length over TokAlphabet
MaxTokens == 3       \* update_markov_chain: token lists up to this length
MaxCalls == 2        \* update_markov_chain calls in a run of the training model
MaxGenTokens == 2    \* token lists the generation model trains on
MaxGenCalls == 2     \* update_markov_chain calls in the generation model
MaxTotal == 4        \* updates of the stand-alone distribution
LenWordA == 40       \* lengths of the two words the generation model trains on
LenWordB == 60

SeqsUpTo(S, n) == UNION {[1..k -> S] : k \in 0..n}

TokAlphabet == {"E", "_", "#", "a", "1", ",", ":", ")", " ", "-"}
SampleTexts ==
    { END_OF_TWEET,
      <<"x", " ">> \o END_OF_TWEET \o <<" ", "y">>,
      <<"#">> \o END_OF_TWEET,
      <<"H","e","l","l","o"," ","@","w","o","r","l","d"," ","#","t","e","s","t"," ",":",")"," ","h","t","t","p",":","/","/","e","x","a","m","p","l","e",".","c","o","m"," ","4","2",".","5">> }
TokInputs == SeqsUpTo(TokAlphabet, MaxTextLen) \cup SampleTexts

TrainTokens == {<<"a">>, <<"b">>, END_OF_TWEET}
TrainInputs == SeqsUpTo(TrainTokens, MaxTokens)
TweetCorpus == { <<"a", " ", "b">>, <<"b", "a">>, <<"a", " ", "1", ",", "2">>,
                 <<"a", " ">> \o END_OF_TWEET \o <<" ", "b">> }

WordA == [i \in 1..LenWordA |-> "a"]
WordB == [i \in 1..LenWordB |-> "b"]
GenTokens == {WordA, WordB}
\* every list of the two words, and one list with the text END_OF_TWEET as a token
GenInputs == SeqsUpTo(GenTokens, MaxGenTokens)
                 \cup {<<WordA, END_OF_TWEET, WordB>>}
LongSeed == [i \in 1..MaxTweetLen |-> "z"]
Seeds == GenTokens \cup {END_OF_TWEET, <<"x">>, LongSeed}

PickTokens == {<<"a">>, <<"b">>, END_OF_TWEET}

(***************************************************************************)
(* State machine                                                           *)
(***************************************************************************)
InitBut(texts) ==
    /\ text \in texts /\ tokens = None
    /\ mc = EmptyChain /\ calls = 0 /\ lastTokens = << >>
    /\ file = NoFile /\ savedMc = << >>
    /\ fresh = EmptyChain /\ outcome = "none"
    /\ pc = "idle" /\ tweet = << >> /\ seed = << >> /\ seedArg = << >>
    /\ result = None /\ stdout = << >>
    /\ pd = NewDistribution /\ pSelf = NewDistribution
    /\ pOrder = << >> /\ pRand = 0 /\ picked = None

Init == InitBut({<< >>})
\* the tokenizer's input is any of TokInputs
InitTok == InitBut(TokInputs)

\* tokenize(tweet)
Tokenize ==
    /\ tokens = None
    /\ tokens' = tokenize(text)
    /\ UNCHANGED <<text, mcVars, ioVars, genVars, pickVars>>

\* self.update_markov_chain(tokens); a run trains first, and saves, loads or
\* generates afterwards
UpdateMarkovChain(toks, limit) ==
    /\ pc = "idle" /\ savedMc = << >>
    /\ calls < limit
    /\ mc' = update_markov_chain(mc, toks)
    /\ calls' = calls + 1
    /\ lastTokens' = toks
    /\ UNCHANGED <<tokVars, ioVars, genVars, pickVars>>

\* the body of train_on_tweets' loops: self.update_markov_chain(tokenize(tweet.text))
TrainOnTweet(t) == UpdateMarkovChain(tokenize(t), MaxCalls)

\* self.save_markov_chain(filename)
Save ==
    /\ file' = save_markov_chain(mc).file
    /\ outcome' = save_markov_chain(mc).outcome
    /\ savedMc' = <<mc>>
    /\ UNCHANGED <<tokVars, mcVars, fresh, genVars, pickVars>>

\* Markov_Chain().load_markov_chain(filename): on a fresh chain
Load ==
    /\ fresh' = load_markov_chain(EmptyChain, file).mc
    /\ outcome' = load_markov_chain(EmptyChain, file).outcome
    /\ UNCHANGED <<tokVars, mcVars, file, savedMc, genVars, pickVars>>

\* generate_tweet(seed) is called: tweet = seed; a run holds one such call
GenStart(s) ==
    /\ pc = "idle"
    /\ pc' = "RUNNING"
    /\ tweet' = s /\ seed' = s /\ seedArg' = s
    /\ result' = None
    /\ UNCHANGED <<tokVars, mcVars, ioVars, stdout, pickVars>>

\* the while condition fails: return tweet
GenStopLength ==
    /\ pc = "RUNNING"
    /\ ~LoopGuard(tweet)
    /\ result' = tweet
    /\ pc' = "DONE_ON_LENGTH"
    /\ UNCHANGED <<tokVars, mcVars, ioVars, tweet, seed, seedArg, stdout, pickVars>>

\* generate_tweet without its except clause: the KeyError reaches the caller
GenFailUnknownRaises ==
    /\ pc = "RUNNING"
    /\ LoopGuard(tweet)
    /\ seed \notin DOMAIN mc
    /\ result' = <<"KeyError">>
    /\ pc' = "FAILED_UNKNOWN_TOKEN"
    /\ UNCHANGED <<tokVars, mcVars, ioVars, tweet, seed, seedArg, stdout, pickVars>>

\* self.mc[token] raises KeyError: print the message, return ""
GenFailUnknown ==
    /\ pc = "RUNNING"
    /\ LoopGuard(tweet)
    /\ seed \notin DOMAIN mc
    /\ stdout' = Append(stdout, SeedMessage)
    /\ result' = << >>
    /\ pc' = "FAILED_UNKNOWN_TOKEN"
    /\ UNCHANGED <<tokVars, mcVars, ioVars, tweet, seed, seedArg, pickVars>>

\* next == "END_OF_TWEET": break, return tweet
GenStopSentinel(order, randnum) ==
    /\ pc = "RUNNING"
    /\ LoopGuard(tweet)
    /\ seed \in DOMAIN mc
    /\ generate_next_token(mc, seed, order, randnum) = END_OF_TWEET
    /\ result' = tweet
    /\ pc' = "DONE_ON_SENTINEL"
    /\ UNCHANGED <<tokVars, mcVars, ioVars, tweet, seed, seedArg, stdout, pickVars>>

\* tweet += " " + next ; seed = next
GenAppend(order, randnum) ==
    /\ pc = "RUNNING"
    /\ LoopGuard(tweet)
    /\ seed \in DOMAIN mc
    /\ LET next == generate_next_token(mc, seed, order, randnum)
       IN  /\ next \notin {END_OF_TWEET, None}
           /\ tweet' = AppendToken(tweet, next)
           /\ seed' = next
    /\ UNCHANGED <<tokVars, mcVars, ioVars, pc, seedArg, result, stdout, pickVars>>

\* one iteration of generate_tweet's loop, or its exit
GenStep ==
    \/ GenStopLength
    \/ GenFailUnknown
    \/ /\ pc = "RUNNING" /\ seed \in DOMAIN mc
       /\ \E order \in IterOrders(mc[seed]) : \E randnum \in RandRange(mc[seed].total) :
             \/ GenStopSentinel(order, randnum)
             \/ GenAppend(order, randnum)

\* pd.update(token)
PdUpdate(token) ==
    /\ pd.total < MaxTotal
    /\ pd' = PDUpdate(pd, token)
    /\ UNCHANGED <<tokVars, mcVars, ioVars, genVars, pSelf, pOrder, pRand, picked>>

\* pd.pick()
PdPick(order, randnum) ==
    /\ pSelf' = pd
    /\ pOrder' = order
    /\ pRand' = randnum
    /\ picked' = pick(pd, order, randnum)
    /\ UNCHANGED <<tokVars, mcVars, ioVars, genVars, pd>>

\* training and persistence
Next ==
    \/ \E toks \in TrainInputs : UpdateMarkovChain(toks, MaxCalls)
    \/ \E t \in TweetCorpus : TrainOnTweet(t)
    \/ Save
    \/ Load
Spec == Init /\ [][Next]_vars

\* the tokenizer
NextTok == Tokenize
SpecTok == InitTok /\ [][NextTok]_vars

\* a Probability_Distribution on its own
NextPick ==
    \/ \E token \in PickTokens : PdUpdate(token)
    \/ \E order \in IterOrders(pd) : \E randnum \in RandRange(pd.total) :
          PdPick(order, randnum)
SpecPick == Init /\ [][NextPick]_vars

\* training, then generation
NextGen ==
    \/ \E toks \in GenInputs : UpdateMarkovChain(toks, MaxGenCalls)
    \/ \E s \in Seeds : GenStart(s)
    \/ GenStep
SpecGen == Init /\ [][NextGen]_vars
\* generate_tweet runs to its return once called: the loop is never suspended
FairSpecGen == SpecGen /\ WF_vars(GenStep)

(***************************************************************************)
(* Properties                                                              *)
(***************************************************************************)
RECURSIVE SumCounts(_, _)
SumCounts(f, S) ==
    IF S = {} THEN 0
    ELSE LET x == CHOOSE x \in S : TRUE
         IN  f[x] + SumCounts(f, S \ {x})

GenDone == {"DONE_ON_SENTINEL", "DONE_ON_LENGTH", "FAILED_UNKNOWN_TOKEN"}

\* C1: in every state of a chain built from the empty chain by
\* update_markov_chain calls, the total of every stored distribution is the
\* sum of the values of its dist mapping.
TotalIsSumOfCounts ==
    \A k \in DOMAIN mc : mc[k].total = SumCounts(mc[k].dist, DOMAIN mc[k].dist)

\* C1 witness: a stored distribution with two successors, one counted twice.
TotalIsSumOfCountsWitness ==
    \E k \in DOMAIN mc :
        /\ Cardinality(DOMAIN mc[k].dist) >= 2
        /\ \E t \in DOMAIN mc[k].dist : mc[k].dist[t] >= 2

\* C2: after update_markov_chain(T) with len(T) >= 2, whatever the chain was
\* before, every adjacent pair (a, b) of T has mc[a].dist[b] >= 1 and the
\* distribution of T's last token holds END_OF_TWEET with a count >= 1.
PairsAndTerminalRecorded ==
    (calls >= 1 /\ Len(lastTokens) >= 2) =>
        /\ \A i \in 2..Len(lastTokens) :
              /\ lastTokens[i-1] \in DOMAIN mc
              /\ lastTokens[i] \in DOMAIN mc[lastTokens[i-1]].dist
              /\ mc[lastTokens[i-1]].dist[lastTokens[i]] >= 1
        /\ lastTokens[Len(lastTokens)] \in DOMAIN mc
        /\ END_OF_TWEET \in DOMAIN mc[lastTokens[Len(lastTokens)]].dist
        /\ mc[lastTokens[Len(lastTokens)]].dist[END_OF_TWEET] >= 1

\* C2 witness: a second call, with three tokens, on a chain trained before.
PairsAndTerminalRecordedWitness ==
    calls >= 2 /\ Len(lastTokens) = 3 /\ lastTokens[1] # lastTokens[2]

\* C3: the string generate_tweet returns is never longer than 140 characters.
OutputWithinCap ==
    (pc \in GenDone /\ result # None) => Len(result) <= MaxTweetLen

RoundTripRestoresChain ==
    (savedMc # << >> /\ outcome \in {"loaded", "IOError", "ValueError"}) =>
        /\ DOMAIN fresh = DOMAIN savedMc[1]
        /\ \A k \in DOMAIN fresh :
              /\ fresh[k].dist = savedMc[1][k].dist
              /\ fresh[k].total = savedMc[1][k].total

\* C6: every generate_tweet call returns: from RUNNING it reaches
\* DONE_ON_SENTINEL, DONE_ON_LENGTH or FAILED_UNKNOWN_TOKEN.
GenerateTerminates == (pc = "RUNNING") ~> (pc \in GenDone)

\* C6 witness: a call that appended at least two tokens and ended on the length.
GenerateTerminatesWitness ==
    /\ pc = "DONE_ON_LENGTH"
    /\ Len(result) > Len(seedArg) + 1 + LenWordA

\* C7: update_markov_chain with a token list of length 0 or 1 leaves the chain
\* as it was: no key added, no count or total changed, no terminal marker.
ShortListLeavesChain ==
    [][(calls' = calls + 1 /\ Len(lastTokens') <= 1) => mc' = mc]_vars

\* C7 witness: a one-token call made on a chain that has been trained.
ShortListWitness ==
    calls >= 2 /\ Len(lastTokens) = 1 /\ DOMAIN mc # {}

\* C8: no token that tokenize returns is equal to the sentinel END_OF_TWEET.
SentinelNeverTokenized ==
    tokens # None => \A i \in 1..Len(tokens) : tokens[i] # END_OF_TWEET

\* C9: on a distribution with total >= 1, pick with the drawn number r returns
\* the first token, in iteration order, whose cumulative count exceeds r; the
\* token it returns is a key of dist, and for every iteration order exactly
\* dist[t] of the numbers in [0, total) make pick return t.
PickFirstExceeding ==
    /\ pSelf.total >= 1 =>
          LET cum(i) == SumCounts(pSelf.dist, {pOrder[j] : j \in 1..i})
              exceeding == {i \in 1..Len(pOrder) : cum(i) > pRand}
          IN  /\ exceeding # {}
              /\ picked = pOrder[Min(exceeding)]
              /\ picked \in DOMAIN pSelf.dist
    /\ \A order \in IterOrders(pd) : \A t \in DOMAIN pd.dist :
          Cardinality({r \in RandRange(pd.total) : pick(pd, order, r) = t})
              = pd.dist[t]

\* C9 witness: pick returned the second token of the iteration order, after a
\* first token counted twice.
PickWitness ==
    /\ pSelf.total >= 3 /\ Len(pOrder) >= 2
    /\ pSelf.dist[pOrder[1]] >= 2
    /\ picked = pOrder[2]

\* C10: every token other than END_OF_TWEET that is a successor in some
\* distribution of the chain is a key of the chain with total >= 1, and a
\* generate_tweet call whose seed is a key never has a current token that is
\* no key or whose distribution is empty.
SuccessorsAreKeys ==
    /\ \A k \in DOMAIN mc : \A t \in DOMAIN mc[k].dist :
          t # END_OF_TWEET => (t \in DOMAIN mc /\ mc[t].total >= 1)
    /\ (pc = "RUNNING" /\ seedArg \in DOMAIN mc) =>
          /\ seed \in DOMAIN mc
          /\ mc[seed].total >= 1
          /\ DOMAIN mc[seed].dist # {}
    /\ (pc = "FAILED_UNKNOWN_TOKEN") => tweet = seedArg

\* C10 witness: a call from a seed that is a key appended a token and ended on
\* the sentinel.
SuccessorsAreKeysWitness ==
    /\ pc = "DONE_ON_SENTINEL"
    /\ seedArg \in DOMAIN mc
    /\ Len(result) > Len(seedArg)

=============================================================================
